---- MODULE Spec2Model ----
(***************************************************************************)
(* A model of release.py (ned-deily/release-tools): the version tag        *)
(* parser (class Tag), the constant block patcher (constant_replace) and   *)
(* the release orchestrator (main and the operations it dispatches to).    *)
(*                                                                         *)
(* A Python str is modelled as a sequence of one-character strings, so     *)
(* that slicing, concatenation, int() and str() are computed, not assumed. *)
(***************************************************************************)
EXTENDS Integers, Sequences, FiniteSets, TLC

VARIABLES
    \* ---- class Tag ----
    tag_name,      \* the string handed to Tag(...)
    cwd_name,      \* os.path.basename(os.getcwd())
    tag,           \* the constructed Tag, NoTag before, Exited after error()
    tag2,          \* Tag(tag.text): the canonical text parsed again
    \* ---- constant_replace ----
    fs,            \* the files on disk: name -> contents, or Absent
    blob,          \* updated_constants
    prev_fs,       \* the files on disk when the latest call started
    runs,          \* the number of calls made so far
    pstatus,       \* "idle", "ok" (returned) or "exit1" (error() called)
    \* ---- main ----
    m              \* the state of one run of main(argv), a record

tvars == <<tag_name, cwd_name, tag, tag2>>
pvars == <<fs, blob, prev_fs, runs, pstatus>>
vars == <<tag_name, cwd_name, tag, tag2, fs, blob, prev_fs, runs, pstatus, m>>

\* Python's None where a string is expected (no string: its one element is
\* not a character)
None == <<"None">>

\* tag before Tag(...) has run, and after error() has ended the process
NoTag == [state |-> "none"]
Exited == [state |-> "exited"]

\* a path at which no file exists
Absent == <<"Absent">>

(***************************************************************************)
(* Bounds of the model.                                                    *)
(***************************************************************************)
MaxTagLen == 4
MaxLines == 5
MaxRuns == 2

(***************************************************************************)
(* Strings.                                                                *)
(***************************************************************************)
NL == "\n"

DigitSeq == <<"0", "1", "2", "3", "4", "5", "6", "7", "8", "9">>

Digits == {DigitSeq[i] : i \in DOMAIN DigitSeq}

DigitChar(n) == DigitSeq[n + 1]

DigitVal(c) == CHOOSE n \in 0..9 : DigitSeq[n + 1] = c

\* int(s) for a string of decimal digits
RECURSIVE int(_)
int(s) ==
    IF s = <<>> THEN 0
    ELSE int(SubSeq(s, 1, Len(s) - 1)) * 10 + DigitVal(s[Len(s)])

\* str(n) for a non-negative integer
RECURSIVE str(_)
str(n) ==
    IF n < 10 THEN <<DigitChar(n)>>
    ELSE str(n \div 10) \o <<DigitChar(n % 10)>>

\* s.replace(c, '') for a one-character c
RECURSIVE remove(_, _)
remove(s, c) ==
    IF s = <<>> THEN <<>>
    ELSE (IF Head(s) = c THEN <<>> ELSE <<Head(s)>>) \o remove(Tail(s), c)

(***************************************************************************)
(* tag_cre = (\d+)(?:\.(\d+)(?:\.(\d+))?)?(?:([ab]|rc)(\d+))?$             *)
(* matched with re.match: anchored at the start of the string; $ matches   *)
(* at the end of the string and just before a newline that ends it.        *)
(***************************************************************************)
\* the positions at which \d+ can end (exclusive) when it starts at i
DigitRuns(s, i) ==
    {j \in (i + 1)..(Len(s) + 1) : \A k \in i..(j - 1) : s[k] \in Digits}

\* $ at position i
AtEnd(s, i) == i = Len(s) + 1 \/ (i = Len(s) /\ s[i] = NL)

\* ([ab]|rc) at position i: each way it matches, as <<end, group>>
LevelCodes(s, i) ==
    (IF i <= Len(s) /\ s[i] \in {"a", "b"}
        THEN {<<i + 1, <<s[i]>>>>} ELSE {})
    \cup
    (IF i + 1 <= Len(s) /\ s[i] = "r" /\ s[i + 1] = "c"
        THEN {<<i + 2, <<"r", "c">>>>} ELSE {})

\* (?:([ab]|rc)(\d+))?$ at position i, given the first three groups
LevelPart(s, i, g1, g2, g3) ==
    UNION {{<<g1, g2, g3, lc[2], SubSeq(s, lc[1], j - 1)>> :
                j \in {k \in DigitRuns(s, lc[1]) : AtEnd(s, k)}} :
            lc \in LevelCodes(s, i)}
    \cup
    (IF AtEnd(s, i) THEN {<<g1, g2, g3, None, None>>} ELSE {})

\* (?:\.(\d+))? for the patch component, then the rest
PatchPart(s, i, g1, g2) ==
    UNION {LevelPart(s, j, g1, g2, SubSeq(s, i + 1, j - 1)) :
        j \in (IF i <= Len(s) /\ s[i] = "." THEN DigitRuns(s, i + 1) ELSE {})}
    \cup LevelPart(s, i, g1, g2, None)

\* (?:\.(\d+)(?:\.(\d+))?)? for the minor component, then the rest
MinorPart(s, i, g1) ==
    UNION {PatchPart(s, j, g1, SubSeq(s, i + 1, j - 1)) :
        j \in (IF i <= Len(s) /\ s[i] = "." THEN DigitRuns(s, i + 1) ELSE {})}
    \cup LevelPart(s, i, g1, None, None)

\* every way the pattern matches s, as result.groups()
Matches(s) ==
    UNION {MinorPart(s, j, SubSeq(s, 1, j - 1)) : j \in DigitRuns(s, 1)}

\* tag_cre.match(s): None, or the groups of the match
tag_cre_match(s) ==
    IF Matches(s) = {} THEN None ELSE CHOOSE g \in Matches(s) : TRUE

(***************************************************************************)
(* class Tag                                                               *)
(***************************************************************************)
\* tag_text with the patch component left out of the text
tag_text_without_patch(major, minor, patch, level, serial) ==
    str(major) \o <<".">> \o str(minor)
        \o (IF level # <<"f">> THEN level \o str(serial) ELSE <<>>)

\* "{}.{}.{}".format(major, minor, patch), plus level and serial if not final
tag_text(major, minor, patch, level, serial) ==
    str(major) \o <<".">> \o str(minor) \o <<".">> \o str(patch)
        \o (IF level # <<"f">> THEN level \o str(serial) ELSE <<>>)

\* '%s.%s' % (major, minor)
tag_basic_version(major, minor) == str(major) \o <<".">> \o str(minor)

\* int(data[i]) after "None means 0"
group_int(g) == IF g = None THEN 0 ELSE int(g)

\* Tag.__init__ once the pattern has matched, from result.groups()
tag_from_groups(data) ==
    LET level == IF data[4] = None THEN <<"f">> ELSE data[4]
        major == group_int(data[1])
        minor == group_int(data[2])
        patch == group_int(data[3])
        serial == group_int(data[5])
    IN  [is_final |-> data[4] = None,
         major |-> major, minor |-> minor, patch |-> patch,
         level |-> level, serial |-> serial,
         text |-> tag_text(major, minor, patch, level, serial),
         basic_version |-> tag_basic_version(major, minor)]

\* the name Tag.__init__ matches: "." stands for the current directory's name
effective_name(name, cwd) == IF name = <<".">> THEN cwd ELSE name

\* Tag(name): the Tag, or Exited when error('tag ... is not valid') is called
Tag(name, cwd) ==
    LET result == tag_cre_match(effective_name(name, cwd))
    IN  IF result = None THEN Exited ELSE tag_from_groups(result)

\* nickname with only the first separator removed (replace(".", "", 1))
RECURSIVE remove_first(_, _)
remove_first(s, c) ==
    IF s = <<>> THEN <<>>
    ELSE IF Head(s) = c THEN Tail(s)
    ELSE <<Head(s)>> \o remove_first(Tail(s), c)

nickname_first_separator_only(t) == remove_first(t.text, ".")

\* Tag.nickname
nickname(t) == remove(t.text, ".")

\* Tag.hgname
hgname(t) == <<"v">> \o t.text

(***************************************************************************)
(* The inputs of Tag: every string over TagChars of at most MaxTagLen      *)
(* characters, and the documented examples.                                *)
(***************************************************************************)
TagChars == {"0", "1", "9", ".", "a", "r", "c", "v", NL}

TagExamples ==
    { <<"3">>,
      <<"3", ".", "9", ".", "0", "a", "2">>,
      <<"2", ".", "7", ".", "1", "8">>,
      <<"v", "X", ".", "Y">>,
      <<"0", "3", ".", "0", "9", "r", "c", "0", "1">>,
      <<"3", ".", "1", "0", ".", "0", "b", "1", "0", NL>>,
      <<"3", ".", "9", ".", "0", "a">>,
      <<"3", ".", "9", ".", "0", ".", "1">> }

TagInputs ==
    UNION {[1..n -> TagChars] : n \in 0..MaxTagLen} \cup TagExamples

CwdNames == { <<"3", ".", "4", ".", "6">>, <<"w", "o", "r", "k">> }

TagIdle ==
    /\ tag_name = <<>>
    /\ cwd_name = <<>>
    /\ tag = NoTag
    /\ tag2 = NoTag

TagStart ==
    /\ tag_name \in TagInputs
    /\ cwd_name \in (IF tag_name = <<".">> THEN CwdNames
                     ELSE {<<"3", ".", "4", ".", "6">>})
    /\ tag = NoTag
    /\ tag2 = NoTag

\* tag = Tag(tag_name)
TagInit ==
    /\ tag = NoTag
    /\ tag' = Tag(tag_name, cwd_name)
    /\ UNCHANGED <<tag_name, cwd_name, tag2>>
    /\ UNCHANGED <<pvars, m>>

\* Tag(tag.text): the canonical text of the Tag, parsed again
TagReparse ==
    /\ tag \notin {NoTag, Exited}
    /\ tag2 = NoTag
    /\ tag2' = Tag(tag.text, cwd_name)
    /\ UNCHANGED <<tag_name, cwd_name, tag>>
    /\ UNCHANGED <<pvars, m>>

(***************************************************************************)
(* constant_replace                                                        *)
(***************************************************************************)
comment_start == <<"/", "*">>

comment_end == <<"*", "/">>

start_word ==
    <<"-", "-", "s", "t", "a", "r", "t", " ",
      "c", "o", "n", "s", "t", "a", "n", "t", "s", "-", "-">>

end_word ==
    <<"-", "-", "e", "n", "d", " ",
      "c", "o", "n", "s", "t", "a", "n", "t", "s", "-", "-">>

start_tag == comment_start \o start_word \o comment_end

end_tag == comment_start \o end_word \o comment_end

\* the path of the patched file, the sibling it is written to, another file
fn == "Include/patchlevel.h"

fn_new == "Include/patchlevel.h.new"

other_fn == "README"

Paths == {fn, fn_new, other_fn}

\* the position of the first newline of c, 0 when it has none
first_newline(c) ==
    IF \E k \in 1..Len(c) : c[k] = NL
        THEN CHOOSE k \in 1..Len(c) :
                c[k] = NL /\ \A h \in 1..(k - 1) : c[h] # NL
        ELSE 0

\* "for line in infile": the lines of a text file, each with its newline; the
\* last one has none when the file does not end in a newline
RECURSIVE readlines(_)
readlines(c) ==
    IF c = <<>> THEN <<>>
    ELSE LET k == first_newline(c)
         IN  IF k = 0 THEN <<c>>
             ELSE <<SubSeq(c, 1, k)>> \o readlines(SubSeq(c, k + 1, Len(c)))

\* line[:-1]
chop(line) == SubSeq(line, 1, Len(line) - 1)

\* print(x, file=outfile)
print_to(out, x) == out \o x \o <<NL>>

\* the loop's state before the first line
loop_start == [found_constants |-> FALSE, waiting_for_end |-> FALSE, out |-> <<>>]

\* on_start without print(end_tag, file=outfile)
on_start_without_end_tag(st, updated_constants) ==
    [found_constants |-> TRUE, waiting_for_end |-> TRUE,
     out |-> print_to(print_to(st.out, start_tag), updated_constants)]

\* the branch taken on a line equal to the start tag
on_start(st, updated_constants) ==
    [found_constants |-> TRUE, waiting_for_end |-> TRUE,
     out |-> print_to(print_to(print_to(st.out, start_tag),
                               updated_constants), end_tag)]

\* the branch taken on a line equal to the end tag
on_end(st) == [st EXCEPT !.waiting_for_end = FALSE]

\* on_other without the test of waiting_for_end
on_other_copies_always(st, line) == [st EXCEPT !.out = st.out \o line]

\* the branch taken on any other line
on_other(st, line) ==
    IF st.waiting_for_end THEN st ELSE [st EXCEPT !.out = st.out \o line]

\* one iteration of the loop
loop_step(st, line, updated_constants) ==
    IF chop(line) = start_tag THEN on_start(st, updated_constants)
    ELSE IF chop(line) = end_tag THEN on_end(st)
    ELSE on_other(st, line)

\* the loop over the lines from line i on
RECURSIVE loop_from(_, _, _, _)
loop_from(lines, i, st, updated_constants) ==
    IF i > Len(lines) THEN st
    ELSE loop_from(lines, i + 1,
                   loop_step(st, lines[i], updated_constants),
                   updated_constants)

\* os.rename(src, dst)
rename(files, src, dst) == [files EXCEPT ![dst] = files[src], ![src] = Absent]

\* the files after constant_replace(fn, updated_constants), and how it ended
constant_replace_result(files, updated_constants) ==
    LET st == loop_from(readlines(files[fn]), 1, loop_start, updated_constants)
        written == [files EXCEPT ![fn_new] = st.out]
    IN  IF ~st.found_constants
            THEN [files |-> written, status |-> "exit1"]
            ELSE [files |-> rename(written, fn_new, fn), status |-> "ok"]

(***************************************************************************)
(* The inputs of constant_replace: files of at most MaxLines lines, each   *)
(* one of LineChoices, the last with or without its newline.               *)
(***************************************************************************)
LineChoices ==
    { start_tag, end_tag, <<"x">>, <<"y">>, start_tag \o <<" ">> }

RECURSIVE join_lines(_, _)
join_lines(ls, terminated) ==
    IF ls = <<>> THEN <<>>
    ELSE IF Len(ls) = 1 THEN ls[1] \o (IF terminated THEN <<NL>> ELSE <<>>)
    ELSE ls[1] \o <<NL>> \o join_lines(Tail(ls), terminated)

FileChoices ==
    {join_lines(ls, t) :
        ls \in UNION {[1..n -> LineChoices] : n \in 0..MaxLines},
        t \in BOOLEAN}

BlobChoices ==
    { <<"v">>,
      <<"v", NL, "w">>,
      start_tag,
      <<"v", NL>> \o end_tag \o <<NL, "w">>,
      <<"v", NL>> \o start_tag \o <<" ">> }

PatchIdle ==
    /\ fs = [p \in Paths |-> Absent]
    /\ prev_fs = [p \in Paths |-> Absent]
    /\ blob = <<>>
    /\ runs = 0
    /\ pstatus = "idle"

PatchStart ==
    /\ \E c \in FileChoices :
          fs = [p \in Paths |-> IF p = fn THEN c
                                ELSE IF p = other_fn THEN <<"r", NL>>
                                ELSE Absent]
    /\ prev_fs = fs
    /\ blob \in BlobChoices
    /\ runs = 0
    /\ pstatus = "idle"

\* one call of constant_replace(fn, blob), with the default delimiters
constant_replace ==
    /\ pstatus # "exit1"
    /\ runs < MaxRuns
    /\ LET r == constant_replace_result(fs, blob)
       IN  /\ fs' = r.files
           /\ pstatus' = r.status
    /\ prev_fs' = fs
    /\ runs' = runs + 1
    /\ UNCHANGED blob
    /\ UNCHANGED <<tvars, m>>

(***************************************************************************)
(* main and the operations it dispatches to.  One run is a walk through    *)
(* the steps the selected operations make, in the order main makes them;   *)
(* what an external command, the disk or the operator answers is chosen    *)
(* at the step.                                                            *)
(***************************************************************************)
Step(op, kind, what) == [op |-> op, kind |-> kind, what |-> what]

\* manual_edit(fn) for each fn of fns
RECURSIVE edit_steps(_, _)
edit_steps(op, fns) ==
    IF fns = <<>> THEN <<>>
    ELSE <<Step(op, "edit", Head(fns))>> \o edit_steps(op, Tail(fns))

\* bump: other_files
other_files(t) ==
    <<"README", "Misc/NEWS">> \o
    (IF t.patch = 0 /\ t.level = <<"a">> /\ t.serial = 0
        THEN <<"configure.ac", "Doc/tutorial/interpreter.rst",
               "Doc/tutorial/stdlib.rst", "Doc/tutorial/stdlib2.rst",
               "LICENSE", "Doc/license.rst">>
        ELSE <<>>)

\* bump(tag)
bump_steps(t) ==
    <<Step("bump", "patch", "Include/patchlevel.h")>>
        \o edit_steps("bump", other_files(t))

\* make_tag(tag)
make_tag_steps(t) ==
    (IF t.patch > 0 THEN <<Step("tag", "branch_check", "hg branch")>>
                    ELSE <<>>)
        \o <<Step("tag", "cmd", "hg tag")>>

\* build_docs()
build_docs_steps ==
    <<Step("export", "file", "TemporaryDirectory"),
      Step("export", "cmd", "python3 -m venv"),
      Step("export", "cmd", "pip install"),
      Step("export", "file", "chdir Doc"),
      Step("export", "cmd", "make dist")>>

\* tarball(source)
tarball_steps ==
    <<Step("export", "cmd", "tar cf"),
      Step("export", "cmd", "tar cJf"),
      Step("export", "file", "md5"),
      Step("export", "cmd", "gpg -K"),
      Step("export", "file", "input key id"),
      Step("export", "system", "gpg -bas tgz"),
      Step("export", "system", "gpg -bas xz")>>

\* export(tag)
export_steps(t) ==
    <<Step("export", "make_dist", "mkdir"),
      Step("export", "file", "chdir tag.text"),
      Step("export", "cmd", "hg archive"),
      Step("export", "file", "chdir archivename"),
      Step("export", "touch", "touch"),
      Step("export", "quiet", "unlink")>>
    \o (IF t.is_final \/ t.level = <<"r", "c">>
           THEN build_docs_steps \o <<Step("export", "file", "copytree")>>
           ELSE <<>>)
    \o <<Step("export", "file", "chdir Doc"),
         Step("export", "quiet", "rmtree"),
         Step("export", "file", "chdir archivename"),
         Step("export", "cmd", "find __pycache__"),
         Step("export", "cmd", "find *.py[co]"),
         Step("export", "file", "mkdir src")>>
    \o tarball_steps

\* upload(tag, username)
upload_steps ==
    <<Step("upload", "file", "chdir tag.text"),
      Step("upload", "cmd", "scp src"),
      Step("upload", "cmd", "scp docs")>>

\* done(tag)
done_steps ==
    <<Step("done", "patch", "Include/patchlevel.h"),
      Step("done", "file", "update_news"),
      Step("done", "edit", "Misc/NEWS")>>

\* the steps of main after check_env, for the selected operations
Plan(opts, t) ==
    (IF opts.bump THEN bump_steps(t) ELSE <<>>)
    \o (IF opts.tag THEN make_tag_steps(t) ELSE <<>>)
    \o (IF opts.export THEN export_steps(t) ELSE <<>>)
    \o (IF opts.upload THEN upload_steps ELSE <<>>)
    \o (IF opts.done THEN done_steps ELSE <<>>)

\* whether a command line starts the version-control client
is_hg(what) == what \in {"hg branch", "hg tag", "hg archive", "hg touch"}

\* sys.exit(1) after error(...) has printed the banner and msg
error(mm, msg) == [mm EXCEPT !.status = "exit1", !.err = msg]

\* parser.print_usage() and sys.exit(1)
usage_exit(mm) == [mm EXCEPT !.status = "exit1", !.err = "usage"]

\* an exception nothing catches: the traceback, and a non-zero exit status
raise(mm, exc) == [mm EXCEPT !.status = "exception", !.err = exc]

\* what a step leaves behind: eff is recorded for its operation, and that it
\* ran after a command had failed
executed(mm, op, eff) ==
    [mm EXCEPT !.effects = @ \cup {<<op, eff>>},
               !.after_failure = @ \/ mm.cmd_failed]

\* the step after the current one
advance(mm) == [mm EXCEPT !.i = @ + 1]

\* run_cmd(cmd) when subprocess.call raises OSError
run_cmd_oserror(mm) ==
    [error(mm, "cmd failed") EXCEPT !.cmd_failed = TRUE, !.reported = TRUE]

\* run_cmd(cmd) when subprocess.call returns code: the code is returned to
\* the caller, and no caller reads it
run_cmd_returns(mm, code) ==
    IF code = "zero" THEN mm ELSE [mm EXCEPT !.cmd_failed = TRUE]

\* run_cmd(cmd) with the outcome res of subprocess.call
run_cmd(mm, res) ==
    IF res = "oserror" THEN run_cmd_oserror(mm) ELSE run_cmd_returns(mm, res)

CallResults == {"zero", "nonzero", "oserror"}

MainTagNames ==
    { <<"3", ".", "9", ".", "0", "a", "0">>,
      <<"2", ".", "7", ".", "1", "8">>,
      <<"3", ".", "9", ".", "0", "r", "c", "1">>,
      <<"v", "X", ".", "Y">>,
      <<".">> }

Selectors == {"bump", "export", "upload", "branch", "tag", "done"}

MainIdle == m = [status |-> "idle"]

MainStart ==
    /\ tag_name = <<>>
    /\ tag = NoTag
    /\ tag2 = NoTag
    /\ \E opts \in [Selectors -> BOOLEAN], editor \in BOOLEAN, hg \in BOOLEAN,
          argv_tag \in MainTagNames \cup {None} :
         /\ cwd_name \in (IF argv_tag = <<".">> THEN CwdNames
                          ELSE {<<"w", "o", "r", "k">>})
         /\ \E release_tag \in
                 (IF argv_tag = None
                     THEN {None, <<"2", ".", "7", ".", "1", "8">>}
                     ELSE {None}) :
              m = [opts |-> opts, editor |-> editor, hg |-> hg,
                   argv_tag |-> argv_tag, release_tag |-> release_tag,
                   pc |-> "parse_args", i |-> 0, status |-> "running",
                   err |-> "", env_checked |-> FALSE, effects |-> {},
                   cmd_failed |-> FALSE, after_failure |-> FALSE,
                   reported |-> FALSE]

Running(pc) == m.status = "running" /\ m.pc = pc

\* the step main is at, when it is one of kind
AtStep(kind) ==
    /\ Running("ops")
    /\ m.i <= Len(Plan(m.opts, tag))
    /\ Plan(m.opts, tag)[m.i].kind = kind

CurStep == Plan(m.opts, tag)[m.i]

\* main: parse_args and the choice of tagname
ParseArgs ==
    /\ Running("parse_args")
    /\ IF m.argv_tag # None
          THEN /\ tag_name' = m.argv_tag
               /\ m' = [m EXCEPT !.pc = "Tag"]
          ELSE IF m.release_tag = None
          THEN /\ m' = usage_exit(m)
               /\ UNCHANGED tag_name
          ELSE /\ tag_name' = m.release_tag
               /\ m' = [m EXCEPT !.pc = "Tag"]
    /\ UNCHANGED <<cwd_name, tag, tag2>>
    /\ UNCHANGED pvars

\* after_Tag when the error() in Tag.__init__ does not end the process
after_Tag_ignoring_error(mm, t) == [mm EXCEPT !.pc = "check_env"]

\* main after tag = Tag(tagname): Tag's error() has ended the run, or on to
\* check_env
after_Tag(mm, t) ==
    IF t = Exited THEN error(mm, "tag is not valid")
    ELSE [mm EXCEPT !.pc = "check_env"]

\* main: tag = Tag(tagname)
MainTag ==
    /\ Running("Tag")
    /\ tag' = Tag(tag_name, cwd_name)
    /\ m' = after_Tag(m, tag')
    /\ UNCHANGED <<tag_name, cwd_name, tag2>>
    /\ UNCHANGED pvars

\* whether main calls check_env()
calls_check_env(opts) == ~(opts.export \/ opts.upload)

\* check_env()
check_env(mm) ==
    IF ~mm.editor THEN error(mm, "editor not detected")
    ELSE IF ~mm.hg THEN error(mm, "CWD is not a Mercurial clone")
    ELSE [mm EXCEPT !.env_checked = TRUE]

\* main: if not (options.export or options.upload): check_env()
CheckEnv ==
    /\ Running("check_env")
    /\ LET mm == IF calls_check_env(m.opts) THEN check_env(m) ELSE m
       IN  m' = IF mm.status = "running"
                   THEN [mm EXCEPT !.pc = "ops", !.i = 1]
                   ELSE mm
    /\ UNCHANGED <<tvars, pvars>>

\* the step is over: on to the next one, unless the run has ended
step_over(mm) == IF mm.status = "running" THEN advance(mm) ELSE mm

\* tweak_patchlevel: constant_replace('Include/patchlevel.h', ...); the file
\* holds the delimiters, or it does not
StepPatch ==
    /\ AtStep("patch")
    /\ \E found \in BOOLEAN :
          m' = IF found
                  THEN advance(executed(m, CurStep.op, "patch"))
                  ELSE error(executed(m, CurStep.op, "patch_failed"),
                             "Constant section delimiters not found")
    /\ UNCHANGED <<tvars, pvars>>

\* manual_edit(fn): run_cmd([os.environ["EDITOR"], fn])
StepEdit ==
    /\ AtStep("edit")
    /\ IF ~m.editor
          THEN m' = raise(executed(m, CurStep.op, "keyerror"), "KeyError")
          ELSE \E res \in CallResults :
                  m' = step_over(run_cmd(executed(m, CurStep.op, "editor"), res))
    /\ UNCHANGED <<tvars, pvars>>

\* run_cmd([...]) of an operation
StepCmd ==
    /\ AtStep("cmd")
    /\ \E res \in CallResults :
          m' = step_over(run_cmd(
                  executed(m, CurStep.op,
                           IF is_hg(CurStep.what) THEN "hg" ELSE "cmd"), res))
    /\ UNCHANGED <<tvars, pvars>>

\* make_tag: get_output(['hg', 'branch']) compared with tag.basic_version,
\* and the question asked when they differ
StepBranchCheck ==
    /\ AtStep("branch_check")
    /\ \E res \in {"same", "differs, y", "differs, n", "nonzero"} :
          LET mm == executed(m, CurStep.op, "hg")
          IN  m' = CASE res = "same" -> advance(mm)
                     [] res = "differs, y" -> advance(mm)
                     [] res = "differs, n" -> advance(advance(mm))
                     [] OTHER -> [raise(mm, "CalledProcessError")
                                     EXCEPT !.cmd_failed = TRUE]
    /\ UNCHANGED <<tvars, pvars>>

\* export: "hg touch" when .hgtouch is a file, os.utime otherwise
StepTouch ==
    /\ AtStep("touch")
    /\ \/ \E res \in CallResults :
             m' = step_over(run_cmd(executed(m, CurStep.op, "hg"), res))
       \/ \E ok \in BOOLEAN :
             m' = IF ok THEN advance(executed(m, CurStep.op, "file"))
                  ELSE raise(executed(m, CurStep.op, "file"), "OSError")
    /\ UNCHANGED <<tvars, pvars>>

\* make_dist(name)
StepMakeDist ==
    /\ AtStep("make_dist")
    /\ \E res \in {"created", "exists", "not a directory"} :
          m' = IF res = "not a directory"
                  THEN error(executed(m, CurStep.op, "file"),
                             "is not a directory")
                  ELSE advance(executed(m, CurStep.op, "file"))
    /\ UNCHANGED <<tvars, pvars>>

\* a call into os, shutil or a file object whose exception nothing catches
StepFile ==
    /\ AtStep("file")
    /\ \E ok \in BOOLEAN :
          m' = IF ok THEN advance(executed(m, CurStep.op, "file"))
               ELSE raise(executed(m, CurStep.op, "file"), "OSError")
    /\ UNCHANGED <<tvars, pvars>>

\* os.unlink under "except OSError: pass", shutil.rmtree(ignore_errors=True)
StepQuiet ==
    /\ AtStep("quiet")
    /\ m' = advance(executed(m, CurStep.op, "file"))
    /\ UNCHANGED <<tvars, pvars>>

\* os.system(...): the exit status is dropped
StepSystem ==
    /\ AtStep("system")
    /\ \E res \in {"zero", "nonzero"} :
          m' = advance(run_cmd_returns(executed(m, CurStep.op, "cmd"), res))
    /\ UNCHANGED <<tvars, pvars>>

\* main returns: the process ends with status 0
Finish ==
    /\ Running("ops")
    /\ m.i > Len(Plan(m.opts, tag))
    /\ m' = [m EXCEPT !.status = "exit0", !.pc = "returned"]
    /\ UNCHANGED <<tvars, pvars>>

(***************************************************************************)
(* The specifications: one per component.                                  *)
(***************************************************************************)
InitTag == TagStart /\ PatchIdle /\ MainIdle

NextTag == TagInit \/ TagReparse

SpecTag == InitTag /\ [][NextTag]_vars

InitPatch == TagIdle /\ PatchStart /\ MainIdle

NextPatch == constant_replace

SpecPatch == InitPatch /\ [][NextPatch]_vars

Init == MainStart /\ PatchIdle

Next ==
    \/ ParseArgs
    \/ MainTag
    \/ CheckEnv
    \/ StepPatch
    \/ StepEdit
    \/ StepCmd
    \/ StepBranchCheck
    \/ StepTouch
    \/ StepMakeDist
    \/ StepFile
    \/ StepQuiet
    \/ StepSystem
    \/ Finish

Spec == Init /\ [][Next]_vars

(***************************************************************************)
(* Claims about Tag, checked under SpecTag.                                *)
(***************************************************************************)
IsTag(t) == t \notin {NoTag, Exited}

\* C1: for every accepted input, the Tag built from the canonical text of the
\* Tag built from the input has the same major, minor, patch, level, serial
\* and is_final, and the same canonical text.
C1_RoundTrip ==
    tag2 # NoTag =>
        /\ tag2 # Exited
        /\ tag2.major = tag.major
        /\ tag2.minor = tag.minor
        /\ tag2.patch = tag.patch
        /\ tag2.level = tag.level
        /\ tag2.serial = tag.serial
        /\ tag2.is_final = tag.is_final
        /\ tag2.text = tag.text

\* a pre-release Tag whose input was not in canonical form, parsed again
C1_Witness ==
    /\ IsTag(tag)
    /\ tag2 # NoTag
    /\ ~tag.is_final
    /\ tag.minor > 0
    /\ tag.text # tag_name

\* ---- the reading of C2: the input taken apart without the pattern ----
StripNewline(s) ==
    IF s # <<>> /\ s[Len(s)] = NL THEN SubSeq(s, 1, Len(s) - 1) ELSE s

\* where the level code starts: the first letter, or just past the end
LevelAt(s) ==
    IF \E k \in 1..Len(s) : s[k] \in {"a", "b", "r"}
        THEN CHOOSE k \in 1..Len(s) :
                /\ s[k] \in {"a", "b", "r"}
                /\ \A h \in 1..(k - 1) : s[h] \notin {"a", "b", "r"}
        ELSE Len(s) + 1

RECURSIVE SplitDots(_)
SplitDots(s) ==
    IF \E k \in 1..Len(s) : s[k] = "."
        THEN LET k == CHOOSE k \in 1..Len(s) :
                        s[k] = "." /\ \A h \in 1..(k - 1) : s[h] # "."
             IN  <<SubSeq(s, 1, k - 1)>> \o SplitDots(SubSeq(s, k + 1, Len(s)))
        ELSE <<s>>

RECURSIVE Pow10(_)
Pow10(k) == IF k = 0 THEN 1 ELSE 10 * Pow10(k - 1)

\* the base-10 value of a digit string, by the weight of each position
RECURSIVE WeightedSum(_, _)
WeightedSum(ds, k) ==
    IF k > Len(ds) THEN 0
    ELSE DigitVal(ds[k]) * Pow10(Len(ds) - k) + WeightedSum(ds, k + 1)

Base10(ds) == WeightedSum(ds, 1)

\* d is the decimal numeral of n
IsNumeralOf(d, n) ==
    /\ d # <<>>
    /\ \A k \in 1..Len(d) : d[k] \in Digits
    /\ Base10(d) = n
    /\ Len(d) = 1 \/ d[1] # "0"

NotDot(c) == c # "."

\* the fields of t are those the input s spells
FieldsSpelledBy(t, s) ==
    LET b == StripNewline(s)
        p == LevelAt(b)
        comps == SplitDots(SubSeq(b, 1, p - 1))
        code == IF b[p] = "r" THEN <<"r", "c">> ELSE <<b[p]>>
    IN  /\ t.major = Base10(comps[1])
        /\ t.minor = IF Len(comps) >= 2 THEN Base10(comps[2]) ELSE 0
        /\ t.patch = IF Len(comps) >= 3 THEN Base10(comps[3]) ELSE 0
        /\ IF p > Len(b)
              THEN t.level = <<"f">> /\ t.serial = 0
              ELSE /\ t.level = code
                   /\ t.serial = Base10(SubSeq(b, p + Len(code), Len(b)))
        /\ t.is_final <=> (t.level = <<"f">>)

\* the derived texts of t are those its fields spell
TextsSpelledBy(t) ==
    LET p == LevelAt(t.text)
        comps == SplitDots(SubSeq(t.text, 1, p - 1))
        branch == SplitDots(t.basic_version)
    IN  /\ Len(comps) = 3
        /\ IsNumeralOf(comps[1], t.major)
        /\ IsNumeralOf(comps[2], t.minor)
        /\ IsNumeralOf(comps[3], t.patch)
        /\ IF t.is_final
              THEN p = Len(t.text) + 1
              ELSE /\ SubSeq(t.text, p, p + Len(t.level) - 1) = t.level
                   /\ IsNumeralOf(SubSeq(t.text, p + Len(t.level), Len(t.text)),
                                  t.serial)
        /\ Len(branch) = 2
        /\ IsNumeralOf(branch[1], t.major)
        /\ IsNumeralOf(branch[2], t.minor)
        /\ nickname(t) = SelectSeq(t.text, NotDot)

C2_Examples ==
    /\ tag_name = <<"3">> =>
          /\ <<tag.major, tag.minor, tag.patch, tag.serial>> = <<3, 0, 0, 0>>
          /\ tag.level = <<"f">>
          /\ tag.is_final
          /\ tag.text = <<"3", ".", "0", ".", "0">>
    /\ tag_name = <<"3", ".", "9", ".", "0", "a", "2">> =>
          /\ <<tag.major, tag.minor, tag.patch, tag.serial>> = <<3, 9, 0, 2>>
          /\ tag.level = <<"a">>
          /\ ~tag.is_final
          /\ tag.text = <<"3", ".", "9", ".", "0", "a", "2">>
    /\ tag_name = <<"2", ".", "7", ".", "1", "8">> =>
          /\ tag.is_final
          /\ tag.basic_version = <<"2", ".", "7">>
          /\ nickname(tag) = <<"2", "7", "1", "8">>

\* C2: for every accepted input the Tag has the base-10 values of the
\* components present and 0 for the absent ones, level final with serial 0
\* when no level code is present and the given level and serial otherwise,
\* is_final iff the level is final, text "major.minor.patch" plus level code
\* and serial only when not final, basic_version "major.minor", and nickname
\* the text without its dots; with the three documented examples.
C2_ParsedFields ==
    (IsTag(tag) /\ tag_name # <<".">>) =>
        /\ FieldsSpelledBy(tag, tag_name)
        /\ TextsSpelledBy(tag)
        /\ C2_Examples

\* the documented pre-release example has been parsed
C2_Witness ==
    /\ IsTag(tag)
    /\ tag_name = <<"3", ".", "9", ".", "0", "a", "2">>

\* the pattern matches a string in at most one way, so the groups do not
\* depend on the order in which the alternatives are tried
MatchIsUnique == Cardinality(Matches(tag_name)) <= 1

(***************************************************************************)
(* Claims about constant_replace, checked under SpecPatch.                 *)
(***************************************************************************)
\* t occurs in s
Contains(s, t) ==
    \E k \in 1..(Len(s) - Len(t) + 1) : SubSeq(s, k, k + Len(t) - 1) = t

HasMarker(s) == Contains(s, start_tag) \/ Contains(s, end_tag)

\* the line is the marker: its text, newline apart
IsMarkerLine(line, marker) == StripNewline(line) = marker

RECURSIVE Concat(_)
Concat(ls) == IF ls = <<>> THEN <<>> ELSE Head(ls) \o Concat(Tail(ls))

\* lines i and j are the one start marker line and the one end marker line,
\* in that order, and no other line holds a marker
OneRegion(lines, i, j) ==
    /\ i < j
    /\ IsMarkerLine(lines[i], start_tag)
    /\ IsMarkerLine(lines[j], end_tag)
    /\ \A k \in (1..Len(lines)) \ {i, j} : ~HasMarker(lines[k])

\* P, the start marker, the blob, the end marker, Q
Patched(lines, i, j, b) ==
    Concat(SubSeq(lines, 1, i - 1))
        \o start_tag \o <<NL>> \o b \o <<NL>> \o end_tag \o <<NL>>
        \o Concat(SubSeq(lines, j + 1, Len(lines)))

EndMarkerLines(content) ==
    {k \in 1..Len(readlines(content)) :
        IsMarkerLine(readlines(content)[k], end_tag)}

\* C3: on a file P, start marker line, lines, end marker line, Q, where no
\* other line and not the replacement holds a marker, the call succeeds and
\* the file becomes P, start marker, replacement, end marker, Q, with the end
\* marker exactly once.
C3_RegionReplaced ==
    runs >= 1 =>
        LET lines == readlines(prev_fs[fn])
        IN  \A i, j \in 1..Len(lines) :
                (OneRegion(lines, i, j) /\ ~HasMarker(blob)) =>
                    /\ pstatus = "ok"
                    /\ fs[fn] = Patched(lines, i, j, blob)
                    /\ Cardinality(EndMarkerLines(fs[fn])) = 1

\* a call has patched a file with lines before, inside and after the region
C3_Witness ==
    /\ runs = 1
    /\ pstatus = "ok"
    /\ ~HasMarker(blob)
    /\ LET lines == readlines(prev_fs[fn])
       IN  \E i, j \in 1..Len(lines) :
              /\ OneRegion(lines, i, j)
              /\ 1 < i
              /\ i + 1 < j
              /\ j < Len(lines)
              /\ fs[fn] # prev_fs[fn]

\* the lines outside every region: a region runs from a start marker line
\* to the next end marker line (to the end of the file when there is none)
RECURSIVE OutsideFrom(_, _, _)
OutsideFrom(lines, k, inside) ==
    IF k > Len(lines) THEN <<>>
    ELSE IF inside
        THEN OutsideFrom(lines, k + 1, ~IsMarkerLine(lines[k], end_tag))
    ELSE IF IsMarkerLine(lines[k], start_tag)
        THEN OutsideFrom(lines, k + 1, TRUE)
    ELSE <<lines[k]>> \o OutsideFrom(lines, k + 1, FALSE)

OutsideLines(content) == OutsideFrom(readlines(content), 1, FALSE)

\* xs occurs in ys, in order, from position k of ys on
RECURSIVE IsSubsequenceFrom(_, _, _)
IsSubsequenceFrom(xs, ys, k) ==
    IF xs = <<>> THEN TRUE
    ELSE IF k > Len(ys) THEN FALSE
    ELSE IF Head(xs) = ys[k] THEN IsSubsequenceFrom(Tail(xs), ys, k + 1)
    ELSE IsSubsequenceFrom(xs, ys, k + 1)

\* C4: after a call that succeeded, every line of the input outside a
\* region is in the output, unchanged and in the same order.
C4_OutsideLinesKept ==
    (runs >= 1 /\ pstatus = "ok") =>
        IsSubsequenceFrom(OutsideLines(prev_fs[fn]), readlines(fs[fn]), 1)

HasStartMarkerLine(content) ==
    \E k \in 1..Len(readlines(content)) :
        IsMarkerLine(readlines(content)[k], start_tag)

\* C5: on a file with no line equal to the start marker the call ends in
\* error() and the file is what it was.
C5_MissingStartFails ==
    (runs >= 1 /\ ~HasStartMarkerLine(prev_fs[fn])) =>
        /\ pstatus = "exit1"
        /\ fs[fn] = prev_fs[fn]

\* on a file that ends in a newline the start marker is missed only when no
\* line is equal to it: there the call ends in error() and the file is kept
MissingStartFails_TerminatedFile ==
    (prev_fs[fn] = <<>> \/ prev_fs[fn][Len(prev_fs[fn])] = NL)
        => C5_MissingStartFails

\* C6 as stated: a second call with the same replacement leaves the file as
\* the first call left it, whatever the replacement.
C6_Idempotent_AnyBlob ==
    (runs >= 2 /\ pstatus = "ok") => fs[fn] = prev_fs[fn]

BlobHasMarkerLine ==
    \E k \in 1..Len(readlines(blob)) :
        \/ IsMarkerLine(readlines(blob)[k], start_tag)
        \/ IsMarkerLine(readlines(blob)[k], end_tag)

\* C6: when no line of the replacement is a marker, a second call with the
\* same replacement leaves the file as the first call left it.
C6_Idempotent ==
    (runs >= 2 /\ pstatus = "ok" /\ ~BlobHasMarkerLine) =>
        fs[fn] = prev_fs[fn]

\* a second call has succeeded on a file the first call built from several
\* lines, some of them outside the region
C6_Witness ==
    /\ runs = 2
    /\ pstatus = "ok"
    /\ ~BlobHasMarkerLine
    /\ Len(OutsideLines(fs[fn])) >= 2
    /\ Len(readlines(fs[fn])) >= 6

\* C7: after a call, ended either way, no file but the patched one differs
\* from what it was before: none created, changed or left behind.
C7_OnlyTargetDiffers ==
    runs >= 1 => \A p \in Paths \ {fn} : fs[p] = prev_fs[p]

(***************************************************************************)
(* Claims about main, checked under Spec.                                  *)
(***************************************************************************)
\* C8: once an external command of the run has failed (it could not be
\* started, or it exited with a non-zero status), nothing more of the run is
\* executed and the run does not end as a success.
C8_FailureAborts ==
    m.cmd_failed => (~m.after_failure /\ m.status # "exit0")

\* the run ended in Tag's error() before check_env and before any operation
EndedAtInvalidTag ==
    /\ m.status = "exit1"
    /\ m.err = "tag is not valid"
    /\ m.pc = "Tag"
    /\ ~m.env_checked
    /\ m.effects = {}

\* C9 as stated: when the string given to main does not match the pattern,
\* the run ends in Tag's error() before check_env and before any operation.
C9_InvalidTagFails_AsGiven ==
    (tag # NoTag /\ tag_cre_match(tag_name) = None) => EndedAtInvalidTag

\* C9: when the string given to main, with "." replaced by the name of the
\* current directory, does not match the pattern, the run ends in Tag's
\* error() before check_env and before any operation, whatever the selectors.
C9_InvalidTagFails ==
    (tag # NoTag /\ tag_cre_match(effective_name(tag_name, cwd_name)) = None)
        => EndedAtInvalidTag

\* a run with bump and export selected has ended at an invalid tag
C9_Witness ==
    /\ tag = Exited
    /\ tag_name = <<"v", "X", ".", "Y">>
    /\ m.opts.bump
    /\ m.opts.export
    /\ m.status = "exit1"

\* C10: bump, tag and done patch no file and start neither the editor nor
\* the version-control client before check_env has passed, so never in a run
\* with EDITOR unset or outside a checkout, whatever the selectors.
C10_EnvCheckedFirst ==
    \A e \in m.effects :
        (e[1] \in {"bump", "tag", "done"} /\ e[2] \in {"patch", "editor", "hg"})
            => (m.env_checked /\ m.editor /\ m.hg)


====
